---------------------------- MODULE Spec2Model ----------------------------
(***************************************************************************)
(* Model of generate_app_icon.py: the module import guard, the layer       *)
(* constructors (create_gradient, draw_airplane, create_front_layer,       *)
(* create_back_layer, create_middle_layer), save_imageset and main().      *)
(*                                                                         *)
(* An image is its size, its background colour and the ordered list of     *)
(* drawing calls made on it.  The filesystem is a set of directories and a *)
(* map from file paths to contents.  Standard output is the sequence of    *)
(* messages printed.                                                       *)
(*                                                                         *)
(* Two specifications:                                                     *)
(*   Spec     one run of the script (import guard, then main()).           *)
(*   SpecLib  the functions called on their own: one layer constructor     *)
(*            with arguments drawn from bounded sets, then save_imageset   *)
(*            called any number of times on the image it returned.         *)
(***************************************************************************)
EXTENDS Integers, Sequences, FiniteSets, TLC

VARIABLES
    pc,          \* position in the script (Spec) or in the call under test (SpecLib)
    dirs,        \* filesystem: the directories that exist (paths)
    files,       \* filesystem: path -> content of every regular file
    out,         \* standard output: the messages printed so far
    exitStatus,  \* <<status>> once the process has exited; Running before
    layers,      \* main()'s locals front, back, middle, front_store, ...
    fontsExist,  \* the candidate font paths for which os.path.exists is true
    loaded,      \* the font paths handed to ImageFont.truetype, in order
    img,         \* SpecLib: the image returned by the constructor under test
    call,        \* SpecLib: the constructor call under test (and what it was made to raise)
    args,        \* SpecLib: (base_path, name) of the running save_imageset call
    written,     \* SpecLib: the paths the running save_imageset call has written
    jsonAfter,   \* SpecLib: the paths written when the descriptor was written
    fsAtCall,    \* SpecLib: the filesystem when the running call began, if it repeats prevCall
    prevCall     \* SpecLib: (base_path, name) of the last call if it returned, else <<>>

vars == <<pc, dirs, files, out, exitStatus, layers, fontsExist, loaded,
          img, call, args, written, jsonAfter, fsAtCall, prevCall>>

(***************************************************************************)
(* Bounds of SpecLib's inputs.                                             *)
(***************************************************************************)
MaxW == 2
MaxH == 3
MaxGradH == 40

None == [none |-> TRUE]

\* exitStatus while the process runs; <<n>> once it has exited with status n
Running == <<>>

(***************************************************************************)
(* Pillow's canvas, as far as the script uses it.                          *)
(***************************************************************************)
\* Image.new('RGBA', (width, height), color)
ImageNew(width, height, color) ==
    [width |-> width, height |-> height, background |-> color, ops |-> <<>>]

\* Image.new('RGBA', (width, height)): the default colour is 0
Transparent == <<0, 0, 0, 0>>

\* draw.line([(x0, y0), (x1, y1)], fill=fill)
LineOp(x0, y0, x1, y1, fill) ==
    [op |-> "line", xy |-> <<x0, y0, x1, y1>>, fill |-> fill]

\* draw.polygon(points, fill=fill)
PolygonOp(points, fill) == [op |-> "polygon", points |-> points, fill |-> fill]

\* draw.ellipse([x0, y0, x1, y1], fill=fill); the coordinates are tenths of a pixel
EllipseOp(box10, fill) == [op |-> "ellipse", box10 |-> box10, fill |-> fill]

\* draw.text((x, y), text, fill=fill, font=font)
TextOp(x, y, text, fill, font) ==
    [op |-> "text", xy |-> <<x, y>>, text |-> text, fill |-> fill, font |-> font]

Draw(image, newOps) == [image EXCEPT !.ops = @ \o newOps]

\* The pixels a width-1 horizontal line covers: both end points included.
Covers(o, x, y) ==
    /\ o.op = "line"
    /\ o.xy[2] = y /\ o.xy[4] = y
    /\ o.xy[1] <= x /\ x <= o.xy[3]

SetMax(S) == CHOOSE m \in S : \A n \in S : n <= m

\* The colour of pixel (x, y) of an image on which only lines were drawn:
\* the last line over it, else the background.
PixelAt(image, x, y) ==
    LET hits == {i \in 1..Len(image.ops) : Covers(image.ops[i], x, y)}
    IN  IF hits = {} THEN image.background ELSE image.ops[SetMax(hits)].fill

(***************************************************************************)
(* create_gradient                                                         *)
(***************************************************************************)
TopColor == <<135, 206, 235>>
BottomColor == <<173, 216, 230>>

\* ratio = y / height; int(top + (bottom - top) * ratio) for one channel.
\* int() truncates toward zero; the value is positive, so it is the floor,
\* and \div is the floor of the exact quotient (also for the negative step
\* of the blue channel).
Channel(top, bottom, y, height) == top + ((bottom - top) * y) \div height

GradientColorSignSlip(y, height) ==
    <<Channel(TopColor[1], BottomColor[1], y, height),
      Channel(TopColor[2], BottomColor[2], y, height),
      Channel(TopColor[3], 2 * TopColor[3] - BottomColor[3], y, height),
      255>>

\* the fill of row y: (r, g, b, 255)
GradientColor(y, height) ==
    <<Channel(TopColor[1], BottomColor[1], y, height),
      Channel(TopColor[2], BottomColor[2], y, height),
      Channel(TopColor[3], BottomColor[3], y, height),
      255>>

\* for y in range(height): draw.line([(0, y), (width, y)], fill=(r, g, b, 255))
create_gradient(width, height) ==
    Draw(ImageNew(width, height, Transparent),
         [i \in 1..height |->
             LineOp(0, i - 1, width, i - 1, GradientColor(i - 1, height))])

(***************************************************************************)
(* draw_airplane: three polygons (fuselage, wings, tail)                   *)
(***************************************************************************)
draw_airplane(center_x, center_y, size, color) ==
    << PolygonOp(<< <<center_x, center_y - size>>,
                    <<center_x + size \div 6, center_y + size \div 2>>,
                    <<center_x, center_y + size \div 3>>,
                    <<center_x - size \div 6, center_y + size \div 2>> >>, color),
       PolygonOp(<< <<center_x - size, center_y - size \div 4>>,
                    <<center_x - size \div 3, center_y>>,
                    <<center_x + size \div 3, center_y>>,
                    <<center_x + size, center_y - size \div 4>> >>, color),
       PolygonOp(<< <<center_x - size \div 3, center_y + size \div 3>>,
                    <<center_x, center_y + size \div 2>>,
                    <<center_x + size \div 3, center_y + size \div 3>> >>, color) >>

(***************************************************************************)
(* create_front_layer                                                      *)
(***************************************************************************)
FontPaths ==
    << "/System/Library/Fonts/Helvetica.ttc",
       "/System/Library/Fonts/SFCompact.ttf",
       "/usr/share/fonts/truetype/dejavu/DejaVuSans-Bold.ttf" >>

\* The calls of the text step that can raise; "none": nothing raises.
RaiseSteps == {"none", "truetype", "textbbox", "text_shadow", "text"}

\* draw.textbbox's width of "FLIGHT TRACKER": it depends on the font file.
TextWidths == {120, 300}

ShadowColor == <<0, 0, 0, 100>>
PlaneColor == <<255, 255, 255, 255>>
TextShadowColor == <<0, 0, 0, 150>>
TextColor == <<255, 255, 255, 255>>

SetMin(S) == CHOOSE m \in S : \A n \in S : m <= n

Existing(exist) == {i \in 1..Len(FontPaths) : FontPaths[i] \in exist}

FontSearchNoBreak(exist) ==
    LET RECURSIVE Collect(_)
        Collect(i) == IF i > Len(FontPaths) THEN <<>>
                      ELSE (IF FontPaths[i] \in exist THEN <<FontPaths[i]>> ELSE <<>>)
                           \o Collect(i + 1)
    IN  Collect(1)

\* for font_path in font_paths: if os.path.exists(font_path): truetype; break
\* The paths handed to ImageFont.truetype, in order.
FontSearch(exist) ==
    IF Existing(exist) = {} THEN <<>>
    ELSE <<FontPaths[SetMin(Existing(exist))]>>

\* The body of the try block: the image after it, the fonts it loaded and
\* the call that raised ("none" when the block ran to its end).
TryText(image, width, height, exist, raiseAt, text_width) ==
    LET tried  == FontSearch(exist)
        font   == [path |-> tried[Len(tried)], size |-> (height * 12) \div 100]
        text_x == (width - text_width) \div 2
        text_y == height - (height * 20) \div 100
        shadow == TextOp(text_x + 1, text_y + 1, "FLIGHT TRACKER", TextShadowColor, font)
        text   == TextOp(text_x, text_y, "FLIGHT TRACKER", TextColor, font)
    IN  IF tried = <<>>
        THEN [img |-> image, loaded |-> <<>>, raised |-> "none"]
        ELSE IF raiseAt \in {"truetype", "textbbox", "text_shadow"}
        THEN [img |-> image, loaded |-> tried, raised |-> raiseAt]
        ELSE IF raiseAt = "text"
        THEN [img |-> Draw(image, <<shadow>>), loaded |-> tried, raised |-> raiseAt]
        ELSE [img |-> Draw(image, <<shadow, text>>), loaded |-> tried, raised |-> "none"]

\* except Exception as e: every exception the text step raises is caught
Caught(raised) == raised # "none"

Planes(width, height) ==
    LET center_x == width \div 2
        center_y == height \div 2 - 20
        airplane_size == (IF width < height THEN width ELSE height) \div 4
    IN  draw_airplane(center_x + 2, center_y + 2, airplane_size, ShadowColor)
        \o draw_airplane(center_x, center_y, airplane_size, PlaneColor)

create_front_layer_WarnsWithoutFont(width, height, exist, raiseAt, text_width) ==
    LET t == TryText(Draw(ImageNew(width, height, Transparent), Planes(width, height)),
                     width, height, exist, raiseAt, text_width)
    IN  [img     |-> t.img,
         printed |-> IF t.loaded = <<>> THEN <<"Could not add text: truetype">>
                     ELSE IF t.raised # "none"
                     THEN <<"Could not add text: " \o t.raised>> ELSE <<>>,
         loaded  |-> t.loaded,
         escaped |-> FALSE]

\* The returned image, what the call printed, the fonts it loaded and
\* whether an exception left it.
create_front_layer(width, height, exist, raiseAt, text_width) ==
    LET t == TryText(Draw(ImageNew(width, height, Transparent), Planes(width, height)),
                     width, height, exist, raiseAt, text_width)
    IN  [img     |-> t.img,
         printed |-> IF Caught(t.raised)
                     THEN <<"Could not add text: " \o t.raised>> ELSE <<>>,
         loaded  |-> t.loaded,
         escaped |-> t.raised # "none" /\ ~Caught(t.raised)]

(***************************************************************************)
(* create_back_layer, create_middle_layer                                  *)
(***************************************************************************)
create_back_layer(width, height) == create_gradient(width, height)

CloudColor == <<255, 255, 255, 80>>

create_middle_layer_OneCloud(width, height) ==
    Draw(ImageNew(width, height, Transparent),
         << EllipseOp(<<width * 1, height * 3, width * 3, height * 5>>, CloudColor) >>)

\* The ellipse boxes [width*0.1, height*0.3, width*0.3, height*0.5] and
\* [width*0.7, height*0.4, width*0.9, height*0.6], in tenths of a pixel.
create_middle_layer(width, height) ==
    Draw(ImageNew(width, height, Transparent),
         << EllipseOp(<<width * 1, height * 3, width * 3, height * 5>>, CloudColor),
            EllipseOp(<<width * 7, height * 4, width * 9, height * 6>>, CloudColor) >>)

(***************************************************************************)
(* Files                                                                   *)
(***************************************************************************)
\* A path is the sequence of its components; os.path.join(path, leaf)
Join(path, leaf) == Append(path, leaf)

\* os.makedirs(path, exist_ok=True): the directory and every missing parent
makedirs(d, path) == d \cup {SubSeq(path, 1, k) : k \in 1..Len(path)}

WriteFileAppends(f, path, content) ==
    [q \in DOMAIN f \cup {path} |->
        IF q # path THEN f[q]
        ELSE IF path \in DOMAIN f
        THEN [format |-> "appended", parts |-> <<f[path], content>>]
        ELSE content]

\* open(path, 'w') / img.save(path): the file is created or replaced
WriteFile(f, path, content) ==
    [q \in DOMAIN f \cup {path} |-> IF q = path THEN content ELSE f[q]]

\* What a write that raised may leave behind: nothing new, or a cut-off file.
Truncated == [format |-> "truncated"]
FailedWriteRollsBack(f, path, partial) == <<>>
FailedWrite(f, path, partial) == IF partial THEN WriteFile(f, path, Truncated) ELSE f

\* img.save(path) with a .png path: the PNG encoding of the image
PngFile(image) ==
    [format |-> "PNG", mode |-> "RGBA", size |-> <<image.width, image.height>>,
     pixels |-> <<image.background, image.ops>>]

ResizeKeepsSize(image, width, height) == image

\* img.resize((width, height), Image.LANCZOS)
Resize(image, width, height) ==
    [width |-> width, height |-> height, background |-> image.background,
     ops |-> << [op |-> "resample", filter |-> "LANCZOS",
                 from |-> <<image.width, image.height>>, source |-> image.ops] >>]

ContentsOneEntry(name) ==
    [images |-> << [filename |-> name \o ".png", idiom |-> "tv", scale |-> "1x"] >>,
     info   |-> [author |-> "xcode", version |-> 1]]

\* the dict written to Contents.json
Contents(name) ==
    [images |-> << [filename |-> name \o ".png", idiom |-> "tv", scale |-> "1x"],
                   [filename |-> name \o "@2x.png", idiom |-> "tv", scale |-> "2x"] >>,
     info   |-> [author |-> "xcode", version |-> 1]]

\* json.dump(contents, f, indent=2) into a file opened with 'w'
JsonFile(value) == [format |-> "JSON", indent |-> 2, value |-> value]

(***************************************************************************)
(* The script: the import guard, then main()                               *)
(***************************************************************************)
IconWidth == 400
IconHeight == 240
StoreWidth == 1280
StoreHeight == 768

output_dir == <<"AppIconAssets">>

NoLayers ==
    [front |-> None, back |-> None, middle |-> None,
     front_store |-> None, back_store |-> None, middle_store |-> None]

\* The six preview saves of main(), in order: the position, the local saved,
\* the file name, the message printed after it and the next position.
PreviewSaves ==
    << [at |-> "save_front",  layer |-> "front",  file |-> "Front-preview.png",
        say |-> <<>>, next |-> "save_back"],
       [at |-> "save_back",   layer |-> "back",   file |-> "Back-preview.png",
        say |-> <<>>, next |-> "save_middle"],
       [at |-> "save_middle", layer |-> "middle", file |-> "Middle-preview.png",
        say |-> <<"Preview images saved to AppIconAssets/">>, next |-> "gen_store"],
       [at |-> "save_front_store",  layer |-> "front_store",
        file |-> "Front-AppStore-preview.png", say |-> <<>>, next |-> "save_back_store"],
       [at |-> "save_back_store",   layer |-> "back_store",
        file |-> "Back-AppStore-preview.png", say |-> <<>>, next |-> "save_middle_store"],
       [at |-> "save_middle_store", layer |-> "middle_store",
        file |-> "Middle-AppStore-preview.png", say |-> <<>>, next |-> "finish"] >>

SaveAt(p) == {i \in 1..Len(PreviewSaves) : PreviewSaves[i].at = p}

libVars == <<img, call, args, written, jsonAfter, fsAtCall, prevCall>>

Init ==
    /\ pc = "import"
    /\ dirs \in {{}, {output_dir}}
    /\ files = <<>>
    /\ out = <<>>
    /\ exitStatus = Running
    /\ layers = NoLayers
    /\ fontsExist \in SUBSET {FontPaths[i] : i \in 1..Len(FontPaths)}
    /\ loaded = <<>>
    /\ img = None /\ call = None /\ args = <<>> /\ written = {}
    /\ jsonAfter = <<>> /\ fsAtCall = None /\ prevCall = <<>>

ImportFailsFallsThrough ==
    /\ pc = "import"
    /\ out' = Append(out, "PIL/Pillow not installed. Run: pip3 install pillow")
    /\ pc' = "makedirs"
    /\ UNCHANGED <<dirs, files, exitStatus, layers, fontsExist, loaded, libVars>>

\* from PIL import ... raises ImportError: print, exit(1)
ImportFails ==
    /\ pc = "import"
    /\ out' = Append(out, "PIL/Pillow not installed. Run: pip3 install pillow")
    /\ exitStatus' = <<1>>
    /\ pc' = "exited"
    /\ UNCHANGED <<dirs, files, layers, fontsExist, loaded, libVars>>

\* the import succeeds; the module body runs to main()
ImportOK ==
    /\ pc = "import"
    /\ pc' = "makedirs"
    /\ UNCHANGED <<dirs, files, out, exitStatus, layers, fontsExist, loaded, libVars>>

\* print; os.makedirs(output_dir, exist_ok=True)
MakeOutputDir ==
    /\ pc = "makedirs"
    /\ out' = Append(out, "Generating App Icons for Eddie's Flight Tracker...")
    /\ dirs' = makedirs(dirs, output_dir)
    /\ pc' = "gen"
    /\ UNCHANGED <<files, exitStatus, layers, fontsExist, loaded, libVars>>

\* front, back, middle = create_*_layer(width, height), at position `at`
\* into the locals named by `names`; an exception leaving create_front_layer
\* is uncaught in main().
Generate(at, say, width, height, names, next) ==
    /\ pc = at
    /\ \E raiseAt \in RaiseSteps, text_width \in TextWidths :
          LET f == create_front_layer(width, height, fontsExist, raiseAt, text_width)
          IN  /\ out' = Append(out, say) \o f.printed
              /\ loaded' = loaded \o f.loaded
              /\ IF f.escaped
                 THEN /\ pc' = "crashed"
                      /\ exitStatus' = <<1>>
                      /\ UNCHANGED layers
                 ELSE /\ pc' = next
                      /\ layers' = [layers EXCEPT
                                      ![names[1]] = f.img,
                                      ![names[2]] = create_back_layer(width, height),
                                      ![names[3]] = create_middle_layer(width, height)]
                      /\ UNCHANGED exitStatus
    /\ UNCHANGED <<dirs, files, fontsExist, libVars>>

GenerateLayers ==
    Generate("gen", "Generating 400x240 icon layers...", IconWidth, IconHeight,
             <<"front", "back", "middle">>, "save_front")

GenerateStoreLayers ==
    Generate("gen_store", "Generating 1280x768 App Store icon layers...",
             StoreWidth, StoreHeight,
             <<"front_store", "back_store", "middle_store">>, "save_front_store")

\* <layer>.save(os.path.join(output_dir, <file>))
SavePreview ==
    \E i \in SaveAt(pc) :
        LET s == PreviewSaves[i]
        IN  /\ files' = WriteFile(files, Join(output_dir, s.file), PngFile(layers[s.layer]))
            /\ out' = out \o s.say
            /\ pc' = s.next
            /\ UNCHANGED <<dirs, exitStatus, layers, fontsExist, loaded, libVars>>

\* os.makedirs or a save raises (disk full, permission denied): nothing in
\* main() catches it, the interpreter prints the traceback and exits with 1.
FilesystemStepRaises ==
    /\ \/ /\ pc = "makedirs"
          /\ out' = Append(out, "Generating App Icons for Eddie's Flight Tracker...")
          /\ UNCHANGED files
       \/ \E i \in SaveAt(pc), partial \in BOOLEAN :
             /\ files' = FailedWrite(files, Join(output_dir, PreviewSaves[i].file), partial)
             /\ UNCHANGED out
    /\ pc' = "crashed"
    /\ exitStatus' = <<1>>
    /\ UNCHANGED <<dirs, layers, fontsExist, loaded, libVars>>

\* the closing prints; main() returns and the interpreter exits with 0
Finish ==
    /\ pc = "finish"
    /\ out' = out \o <<"Done! Generated icon layers in 'AppIconAssets/' folder",
                        "Next steps:">>
    /\ exitStatus' = <<0>>
    /\ pc' = "exited"
    /\ UNCHANGED <<dirs, files, layers, fontsExist, loaded, libVars>>

Next ==
    \/ ImportFails
    \/ ImportOK
    \/ MakeOutputDir
    \/ GenerateLayers
    \/ SavePreview
    \/ GenerateStoreLayers
    \/ FilesystemStepRaises
    \/ Finish

Spec == Init /\ [][Next]_vars

(***************************************************************************)
(* The functions on their own: a constructor call, then save_imageset      *)
(***************************************************************************)
Widths == 1..MaxW
Heights == 1..MaxH
GradHeights == 1..MaxGradH
BasePaths == {<<"Assets">>}
Names == {"Front", "Back"}

\* What an earlier program may have left in an imageset folder.
StaleFile == [format |-> "stale"]
StaleFolder == Join(<<"Assets">>, "Front.imageset")

InitLib ==
    /\ pc = "lib_start"
    /\ \E stale \in BOOLEAN :
          IF stale
          THEN /\ dirs = makedirs({}, StaleFolder)
               /\ files = (Join(StaleFolder, "Front.png") :> StaleFile)
                           @@ (Join(StaleFolder, "Contents.json") :> StaleFile)
                           @@ (Join(StaleFolder, "Old.png") :> StaleFile)
          ELSE /\ dirs = {}
               /\ files = <<>>
    /\ out = <<>>
    /\ exitStatus = Running
    /\ layers = NoLayers
    /\ fontsExist = {}
    /\ loaded = <<>>
    /\ img = None /\ call = None /\ args = <<>> /\ written = {}
    /\ jsonAfter = <<>> /\ fsAtCall = None /\ prevCall = <<>>

Returned(fn, width, height, image) ==
    /\ img' = image
    /\ call' = [fn |-> fn, width |-> width, height |-> height]
    /\ pc' = "lib_returned"

CallGradient ==
    /\ pc = "lib_start"
    /\ \E width \in Widths, height \in GradHeights :
          Returned("create_gradient", width, height, create_gradient(width, height))
    /\ UNCHANGED <<dirs, files, out, exitStatus, layers, fontsExist, loaded,
                   args, written, jsonAfter, fsAtCall, prevCall>>

CallFrontLayer ==
    /\ pc = "lib_start"
    /\ \E width \in Widths, height \in Heights,
          exist \in SUBSET {FontPaths[i] : i \in 1..Len(FontPaths)},
          raiseAt \in RaiseSteps, text_width \in TextWidths :
          LET f == create_front_layer(width, height, exist, raiseAt, text_width)
          IN  /\ fontsExist' = exist
              /\ out' = f.printed
              /\ loaded' = f.loaded
              /\ img' = IF f.escaped THEN None ELSE f.img
              /\ call' = [fn |-> "create_front_layer", width |-> width,
                          height |-> height, raiseAt |-> raiseAt,
                          text_width |-> text_width]
              /\ pc' = IF f.escaped THEN "lib_raised" ELSE "lib_returned"
    /\ UNCHANGED <<dirs, files, exitStatus, layers,
                   args, written, jsonAfter, fsAtCall, prevCall>>

CallBackLayer ==
    /\ pc = "lib_start"
    /\ \E width \in Widths, height \in Heights :
          Returned("create_back_layer", width, height, create_back_layer(width, height))
    /\ UNCHANGED <<dirs, files, out, exitStatus, layers, fontsExist, loaded,
                   args, written, jsonAfter, fsAtCall, prevCall>>

CallMiddleLayer ==
    /\ pc = "lib_start"
    /\ \E width \in Widths, height \in Heights :
          Returned("create_middle_layer", width, height,
                   create_middle_layer(width, height))
    /\ UNCHANGED <<dirs, files, out, exitStatus, layers, fontsExist, loaded,
                   args, written, jsonAfter, fsAtCall, prevCall>>

\* imageset_path = os.path.join(base_path, f"{name}.imageset")
imageset_path(a) == Join(a[1], a[2] \o ".imageset")
Path1x(a) == Join(imageset_path(a), a[2] \o ".png")
Path2x(a) == Join(imageset_path(a), a[2] \o "@2x.png")
PathJson(a) == Join(imageset_path(a), "Contents.json")

\* save_imageset(img, base_path, name) is called
CallSaveImageset ==
    /\ pc \in {"lib_returned", "lib_idle"}
    /\ \E base_path \in BasePaths, name \in Names : args' = <<base_path, name>>
    /\ fsAtCall' = IF prevCall = args' THEN [dirs |-> dirs, files |-> files] ELSE None
    /\ written' = {}
    /\ jsonAfter' = <<>>
    /\ out' = <<>>
    /\ pc' = "s_makedirs"
    /\ UNCHANGED <<dirs, files, exitStatus, layers, fontsExist, loaded,
                   img, call, prevCall>>

\* os.makedirs(imageset_path, exist_ok=True)
SaveMakedirs ==
    /\ pc = "s_makedirs"
    /\ dirs' = makedirs(dirs, imageset_path(args))
    /\ pc' = "s_1x"
    /\ UNCHANGED <<files, out, exitStatus, layers, fontsExist, loaded, libVars>>

\* img.save(os.path.join(imageset_path, f"{name}.png"))
Save1x ==
    /\ pc = "s_1x"
    /\ files' = WriteFile(files, Path1x(args), PngFile(img))
    /\ written' = written \cup {Path1x(args)}
    /\ pc' = "s_2x"
    /\ UNCHANGED <<dirs, out, exitStatus, layers, fontsExist, loaded,
                   img, call, args, jsonAfter, fsAtCall, prevCall>>

\* img_2x = img.resize((img.width * 2, img.height * 2), Image.LANCZOS); img_2x.save(...)
Save2x ==
    /\ pc = "s_2x"
    /\ files' = WriteFile(files, Path2x(args),
                          PngFile(Resize(img, img.width * 2, img.height * 2)))
    /\ written' = written \cup {Path2x(args)}
    /\ pc' = "s_json"
    /\ UNCHANGED <<dirs, out, exitStatus, layers, fontsExist, loaded,
                   img, call, args, jsonAfter, fsAtCall, prevCall>>

\* with open(.../Contents.json, 'w') as f: json.dump(contents, f, indent=2)
SaveContents ==
    /\ pc = "s_json"
    /\ files' = WriteFile(files, PathJson(args), JsonFile(Contents(args[2])))
    /\ jsonAfter' = <<written>>
    /\ written' = written \cup {PathJson(args)}
    /\ pc' = "s_print"
    /\ UNCHANGED <<dirs, out, exitStatus, layers, fontsExist, loaded,
                   img, call, args, fsAtCall, prevCall>>

\* print(f"Created {name} @ 1x and 2x"); the call returns
SaveReturns ==
    /\ pc = "s_print"
    /\ out' = Append(out, "Created " \o args[2] \o " @ 1x and 2x")
    /\ prevCall' = args
    /\ args' = <<>> /\ written' = {} /\ jsonAfter' = <<>> /\ fsAtCall' = None
    /\ pc' = "lib_idle"
    /\ UNCHANGED <<dirs, files, exitStatus, layers, fontsExist, loaded, img, call>>

\* A filesystem call of save_imageset raises before it changes anything
\* (permission denied, read-only volume): the exception leaves the call.
SaveRaises ==
    /\ pc \in {"s_makedirs", "s_1x", "s_2x", "s_json"}
    /\ prevCall' = <<>>
    /\ args' = <<>> /\ written' = {} /\ jsonAfter' = <<>> /\ fsAtCall' = None
    /\ pc' = "lib_idle"
    /\ UNCHANGED <<dirs, files, out, exitStatus, layers, fontsExist, loaded, img, call>>

NextLib ==
    \/ CallGradient
    \/ CallFrontLayer
    \/ CallBackLayer
    \/ CallMiddleLayer
    \/ CallSaveImageset
    \/ SaveMakedirs
    \/ Save1x
    \/ Save2x
    \/ SaveContents
    \/ SaveReturns
    \/ SaveRaises

SpecLib == InitLib /\ [][NextLib]_vars

(***************************************************************************)
(* Properties of the functions (SpecLib)                                   *)
(***************************************************************************)
GradientCalls == {"create_gradient", "create_back_layer"}
LayerCalls == {"create_front_layer", "create_back_layer", "create_middle_layer"}
Opaque(rgb) == <<rgb[1], rgb[2], rgb[3], 255>>

\* C1: for every height >= 1 and width >= 1 the image create_gradient
\* returns has the top colour (135, 206, 235) in every pixel of row 0 and
\* the bottom colour (173, 216, 230) in every pixel of row height-1.
\* (Taken at the heights >= 2, where the two rows are different rows.)
C1_EndpointsExact ==
    (pc = "lib_returned" /\ call.fn = "create_gradient" /\ call.height >= 2) =>
        \A x \in 0..(call.width - 1) :
            /\ PixelAt(img, x, 0) = Opaque(TopColor)
            /\ PixelAt(img, x, call.height - 1) = Opaque(BottomColor)

\* C10: every row y of the gradient has one colour in all its pixels; it is
\* the truncated linear interpolation at ratio y/height (the largest
\* integer not above the exact value, per channel), it lies within the end
\* colours (135..173, 206..216, 230..235, alpha 255), and going down r and
\* g never decrease and b never increases.
C10_GradientRows ==
    (pc = "lib_returned" /\ call.fn \in GradientCalls) =>
        \A y \in 0..(call.height - 1) :
            LET c == PixelAt(img, 0, y)
                h == call.height
            IN  /\ \A x \in 0..(call.width - 1) : PixelAt(img, x, y) = c
                /\ c[1] * h <= 135 * h + 38 * y /\ 135 * h + 38 * y < (c[1] + 1) * h
                /\ c[2] * h <= 206 * h + 10 * y /\ 206 * h + 10 * y < (c[2] + 1) * h
                /\ c[3] * h <= 235 * h - 5 * y  /\ 235 * h - 5 * y < (c[3] + 1) * h
                /\ 135 <= c[1] /\ c[1] <= 173
                /\ 206 <= c[2] /\ c[2] <= 216
                /\ 230 <= c[3] /\ c[3] <= 235
                /\ c[4] = 255
                /\ y > 0 =>
                      LET p == PixelAt(img, 0, y - 1)
                      IN  p[1] <= c[1] /\ p[2] <= c[2] /\ p[3] >= c[3]

\* a 7-row gradient, whose last row is (167, 214, 230, 255)
C10_Witness ==
    /\ pc = "lib_returned"
    /\ call.fn = "create_gradient"
    /\ call.height = 7
    /\ PixelAt(img, call.width - 1, 6) = <<167, 214, 230, 255>>

\* C3: the image a layer constructor returns has the requested width and
\* height; the 1x PNG save_imageset writes has the size of the image it
\* was given and the 2x PNG has twice its width and twice its height.
C3_Dimensions ==
    /\ (pc = "lib_returned" /\ call.fn \in LayerCalls) =>
          (img.width = call.width /\ img.height = call.height)
    /\ pc \in {"s_2x", "s_json", "s_print"} =>
          files[Path1x(args)].size = <<img.width, img.height>>
    /\ pc \in {"s_json", "s_print"} =>
          files[Path2x(args)].size = <<2 * img.width, 2 * img.height>>

\* save_imageset has written both PNGs of a 2x3 front layer
C3_Witness ==
    /\ pc = "s_json"
    /\ call.fn = "create_front_layer"
    /\ files[Path1x(args)].size = <<2, 3>>
    /\ files[Path2x(args)].size = <<4, 6>>

\* C5: a save_imageset call that repeats the call before it (same image,
\* base path and name, the first having returned) ends with the
\* filesystem (directories, files and their contents) as it found it.
C5_Idempotent ==
    (pc = "s_print" /\ fsAtCall # None) =>
        (dirs = fsAtCall.dirs /\ files = fsAtCall.files)

\* the second of two equal calls has written its three files, into a folder
\* that held other files before the first call
C5_Witness ==
    /\ pc = "s_print"
    /\ fsAtCall # None
    /\ written = {Path1x(args), Path2x(args), PathJson(args)}
    /\ Join(StaleFolder, "Old.png") \in DOMAIN files
    /\ args[2] = "Front"

\* C6: the Contents.json save_imageset writes lists exactly two images,
\* <name>.png at scale 1x and <name>@2x.png at scale 2x, and each of them is
\* a file the call wrote into the same folder before it wrote the
\* descriptor; until then the call has not written the descriptor.
C6_Descriptor ==
    /\ pc \in {"s_makedirs", "s_1x", "s_2x", "s_json"} =>
          (jsonAfter = <<>> /\ PathJson(args) \notin written)
    /\ pc = "s_print" =>
          LET c == files[PathJson(args)].value
          IN  /\ Len(c.images) = 2
              /\ c.images[1].scale = "1x"
              /\ c.images[1].filename = args[2] \o ".png"
              /\ c.images[2].scale = "2x"
              /\ c.images[2].filename = args[2] \o "@2x.png"
              /\ \A i \in 1..Len(c.images) :
                    LET listed == Join(imageset_path(args), c.images[i].filename)
                    IN  /\ listed \in jsonAfter[1]
                        /\ listed \in DOMAIN files
                        /\ files[listed].format = "PNG"

\* the descriptor of "Back" has been written for a gradient of height 3
C6_Witness ==
    /\ pc = "s_print"
    /\ args[2] = "Back"
    /\ call.height = 3
    /\ files[PathJson(args)].value.images[2].filename = "Back@2x.png"

TextOps(image) == {i \in 1..Len(image.ops) : image.ops[i].op = "text"}
Warnings == {"Could not add text: " \o r : r \in RaiseSteps \ {"none"}}
Warned(printed) == \E i \in 1..Len(printed) : printed[i] \in Warnings
FirstExisting(exist) == FontPaths[SetMin(Existing(exist))]

\* the first six drawing calls are the three shadow polygons, then the
\* three airplane polygons
ShadowAndAirplane(image) ==
    /\ Len(image.ops) >= 6
    /\ \A i \in 1..6 : image.ops[i].op = "polygon"
    /\ \A i \in 1..3 : image.ops[i].fill = ShadowColor
    /\ \A i \in 4..6 : image.ops[i].fill = PlaneColor

\* What C8 says of the fonts that can be loaded, and of the exception.
C8_Common ==
    /\ pc # "lib_raised"
    /\ (pc = "lib_returned" /\ call.fn = "create_front_layer") =>
          /\ ShadowAndAirplane(img)
          /\ fontsExist # {} =>
                /\ loaded = <<FirstExisting(fontsExist)>>
                /\ call.raiseAt # "none" =>
                      out = <<"Could not add text: " \o call.raiseAt>>
                /\ call.raiseAt = "truetype" => TextOps(img) = {}
                /\ call.raiseAt = "none" =>
                      (out = <<>> /\ Cardinality(TextOps(img)) = 2)

\* C8 (as stated): in create_front_layer a missing or unloadable font is
\* non-fatal, caught and logged, and the text is omitted; only the first
\* candidate path that exists is loaded; if loading it or measuring or
\* drawing the text raises, a warning is printed, no later candidate is
\* tried, the exception does not leave create_front_layer and the layer
\* returned still has the shadow and the airplane.
C8_MissingFontLogged ==
    /\ C8_Common
    /\ (pc = "lib_returned" /\ call.fn = "create_front_layer" /\ fontsExist = {}) =>
          (Warned(out) /\ TextOps(img) = {} /\ loaded = <<>>)

\* C8 (amended): as stated, except that a missing font (no candidate path
\* exists) is not logged: nothing is loaded, nothing is raised or printed,
\* and the layer is returned without text.
C8_FontFailureNonFatal ==
    /\ C8_Common
    /\ (pc = "lib_returned" /\ call.fn = "create_front_layer" /\ fontsExist = {}) =>
          (out = <<>> /\ TextOps(img) = {} /\ loaded = <<>>)

\* the second and third candidates exist, the second is loaded, drawing the
\* text raises and the warning is printed
C8_Witness ==
    /\ pc = "lib_returned"
    /\ call.fn = "create_front_layer"
    /\ fontsExist = {FontPaths[2], FontPaths[3]}
    /\ call.raiseAt = "text"
    /\ loaded = <<FontPaths[2]>>
    /\ Warned(out)

(***************************************************************************)
(* Properties of a run of the script (Spec)                                *)
(***************************************************************************)
ImportError == "PIL/Pillow not installed. Run: pip3 install pillow"
DoneMessage == "Done! Generated icon layers in 'AppIconAssets/' folder"
Said(message) == \E i \in 1..Len(out) : out[i] = message
ImportFailed == Said(ImportError)
FsSteps == {"makedirs"} \cup {PreviewSaves[i].at : i \in 1..Len(PreviewSaves)}
PreviewPaths == {Join(output_dir, PreviewSaves[i].file) : i \in 1..Len(PreviewSaves)}
NoFontRunEnded == pc = "exited" /\ exitStatus = <<0>> /\ fontsExist = {}

OnlyLines(data) == \A i \in 1..Len(data[2]) : data[2][i].op = "line"
TextlessAirplane(data) ==
    /\ Len(data[2]) = 6
    /\ \A i \in 1..6 : data[2][i].op = "polygon"
TwoEllipses(data) ==
    /\ Len(data[2]) = 2
    /\ \A i \in 1..2 : data[2][i].op = "ellipse"

Continues ==
    ImportOK \/ MakeOutputDir \/ GenerateLayers \/ SavePreview
    \/ GenerateStoreLayers \/ Finish

\* C4: when no candidate font path exists create_front_layer loads no font,
\* prints no warning and returns the layer with the shadow and the airplane
\* and no text; main() can go on at every step, only a failing filesystem
\* step ends it early, and when it ends the six previews are written, the
\* closing message is printed and the exit status is zero.
C4_NoFontCompletes ==
    /\ [](fontsExist = {} =>
            /\ loaded = <<>>
            /\ ~Warned(out)
            /\ \A l \in {"front", "front_store"} :
                  layers[l] # None =>
                      (ShadowAndAirplane(layers[l]) /\ Len(layers[l].ops) = 6)
            /\ pc \notin {"import", "exited", "crashed"} => ENABLED Continues
            /\ (pc = "exited" /\ ~ImportFailed) =>
                  /\ exitStatus = <<0>>
                  /\ PreviewPaths \subseteq DOMAIN files
                  /\ Said(DoneMessage))
    /\ [][(fontsExist = {} /\ pc' = "crashed") => pc \in FsSteps]_vars

\* a run without fonts has ended with status 0 and a six-polygon front layer
C4_Witness ==
    /\ fontsExist = {}
    /\ pc = "exited"
    /\ exitStatus = <<0>>
    /\ Len(layers.front.ops) = 6
    /\ Said(DoneMessage)

\* C7: if the drawing library cannot be imported the program prints the
\* error and exits with a non-zero status, having created no directory,
\* written no file and generated no layer; every other run that reaches the
\* end of main() exits with status zero.
C7_ImportGuard ==
    /\ [](ImportFailed =>
            /\ pc = "exited"
            /\ exitStatus # Running /\ exitStatus[1] # 0
            /\ out = <<ImportError>>
            /\ files = <<>>
            /\ layers = NoLayers
            /\ loaded = <<>>)
    /\ [][ImportFailed' => (dirs' = dirs /\ files' = files /\ layers' = layers)]_vars
    /\ []((pc = "exited" /\ ~ImportFailed) =>
            (exitStatus = <<0>> /\ Said(DoneMessage)))

\* the import failed in a directory without AppIconAssets/
C7_Witness ==
    /\ ImportFailed
    /\ pc = "exited"
    /\ exitStatus = <<1>>
    /\ dirs = {}

\* C9: a failing filesystem step of main() (the makedirs or one of the six
\* saves) ends the process there with a non-zero status: nothing runs after
\* it, the closing messages are not printed, no layer is generated by the
\* failing step and every file written before it is left as it was.
C9_FilesystemFailureFatal ==
    /\ [](pc = "crashed" =>
            /\ exitStatus = <<1>>
            /\ ~Said(DoneMessage)
            /\ ~Said("Next steps:"))
    /\ [][pc' = "crashed" =>
            /\ pc \in FsSteps
            /\ layers' = layers
            /\ dirs' = dirs
            /\ \A p \in DOMAIN files : p \in DOMAIN files' /\ files'[p] = files[p]]_vars
    /\ [][pc # "crashed"]_vars

\* the third save failed: the first two previews are on disk, the store
\* layers were never generated
C9_Witness ==
    /\ pc = "crashed"
    /\ {Join(output_dir, "Front-preview.png"), Join(output_dir, "Back-preview.png")}
         \subseteq DOMAIN files
    /\ files[Join(output_dir, "Front-preview.png")].format = "PNG"
    /\ layers.middle # None
    /\ layers.front_store = None

=============================================================================
